---- MODULE Spec2Model ----
(***************************************************************************)
(* Model of src/menu.rs: the quick-menu of YourGame (Screens, Actions,     *)
(* GameCfg), the lifecycle hook `menu` registered on OnEnter/OnExit of     *)
(* GameState::Game and the per-frame system `handle_events`.               *)
(*                                                                         *)
(* One frame of the host (Bevy 0.10 main schedule) is modelled as          *)
(*   StateTransitions : apply_state_transition, which replaces State by    *)
(*                      the queued NextState and then runs the OnExit and  *)
(*                      OnEnter schedules (one step each),                 *)
(*   Update           : the menu's input system (a bounded number of       *)
(*                      selections) and handle_events (once), in either    *)
(*                      order, since the plugin does not order them,       *)
(*   flush            : the command buffers of Update are applied.         *)
(* Option<T> values are sequences: <<>> is None and <<v>> is Some(v).      *)
(***************************************************************************)
EXTENDS Integers, Sequences, FiniteSets, TLC

VARIABLES
    wasm,        \* build target: TRUE iff target_arch = "wasm32"
    gameState,   \* State<GameState>.0
    nextState,   \* NextState<GameState>.0 : Option<GameState>
    cfg,         \* the shared GameCfg resource : Option (absent until inserted)
    menuState,   \* the MenuState<Screens> resource : Option
    events,      \* Events<Actions> not yet read by handle_events
    commands,    \* command buffer of handle_events, applied at the flush
    appExit,     \* number of AppExit events sent
    title,       \* title of the primary window
    phase,       \* position in the frame
    exited,      \* the state apply_state_transition has just replaced
    handled,     \* handle_events already ran in this frame
    acts,        \* selections handled by the input system in this frame
    enteredGame, \* history: GameState::Game was entered at least once
    hostOutcome, \* history: the outcome the host wrote last
    pauseMark,   \* history: boolean/num at the moment Actions::Pause was handled
    arg,         \* input configuration of the function-level specification
    res,         \* configuration after the applied actions
    applied,     \* actions applied to arg so far
    resolved     \* the menu last resolved

vars == <<wasm, gameState, nextState, cfg, menuState, events, commands,
          appExit, title, phase, exited, handled, acts, enteredGame,
          hostOutcome, pauseMark, arg, res, applied, resolved>>

pureVars == <<arg, res, applied, resolved>>

\* Selections the input system may handle in one frame.
MaxActsPerFrame == 1
\* Actions applied in a row in the function-level specification.
MaxApplied == 2

None == <<>>
Some(v) == <<v>>

----------------------------------------------------------------------------
\* enum Screens, enum Actions

Screens == {"Game", "Pause", "NewGame", "GameOver", "Num"}

Resume == [tag |-> "Resume", n |-> 0]
Pause == [tag |-> "Pause", n |-> 0]
Quit == [tag |-> "Quit", n |-> 0]
NewGame == [tag |-> "NewGame", n |-> 0]
SetBoolean == [tag |-> "SetBoolean", n |-> 0]
SetNum(x) == [tag |-> "SetNum", n |-> x]

NoAction == [tag |-> "None", n |-> 0]

\* (lo..hi) of Rust: hi is excluded.
RangeInclusive(lo, hi) == [i \in 1..(hi - lo + 1) |-> lo + i - 1]
Range(lo, hi) == [i \in 1..(hi - lo) |-> lo + i - 1]

SeqToSet(s) == {s[i] : i \in 1..Len(s)}

\* The values of Actions the build has; Quit is compiled out on wasm32.
Actions ==
    {Resume, Pause, NewGame, SetBoolean}
        \cup {SetNum(x) : x \in SeqToSet(Range(3, 6))}
        \cup (IF wasm THEN {} ELSE {Quit})

----------------------------------------------------------------------------
\* struct GameCfg

GameCfg ==
    [boolean : BOOLEAN, new_game : BOOLEAN,
     outcome : {None, Some(TRUE), Some(FALSE)}, num : 3..5]

GameCfg_default_zeroed ==
    [boolean |-> FALSE, new_game |-> FALSE, outcome |-> None, num |-> 0]

GameCfg_default ==
    [boolean |-> TRUE, new_game |-> FALSE, outcome |-> None, num |-> 3]

----------------------------------------------------------------------------
\* Actions::handle

\* EventWriter::send
send(event_writer, e) == Append(event_writer, e)

or_assign(b, v) == b \/ v
\* b ^= v
xor_assign(b, v) == b # v

handle_keeps_num(self, state, event_writer) ==
    CASE self.tag \in {"Pause", "Resume"} ->
            [state |-> state, events |-> send(event_writer, self)]
      [] self.tag = "Quit" ->
            [state |-> state, events |-> send(event_writer, self)]
      [] self.tag = "NewGame" ->
            [state |-> [state EXCEPT !.new_game = TRUE],
             events |-> send(event_writer, self)]
      [] self.tag = "SetBoolean" ->
            [state |-> [state EXCEPT !.boolean = xor_assign(@, TRUE)],
             events |-> event_writer]
      [] self.tag = "SetNum" ->
            [state |-> state, events |-> event_writer]

handle_forgets_new_game(self, state, event_writer) ==
    CASE self.tag \in {"Pause", "Resume", "Quit", "NewGame"} ->
            [state |-> state, events |-> send(event_writer, self)]
      [] self.tag = "SetBoolean" ->
            [state |-> [state EXCEPT !.boolean = xor_assign(@, TRUE)],
             events |-> event_writer]
      [] self.tag = "SetNum" ->
            [state |-> [state EXCEPT !.num = self.n], events |-> event_writer]

handle_setters_send(self, state, event_writer) ==
    CASE self.tag \in {"Pause", "Resume"} ->
            [state |-> state, events |-> send(event_writer, self)]
      [] self.tag = "Quit" ->
            [state |-> state, events |-> send(event_writer, self)]
      [] self.tag = "NewGame" ->
            [state |-> [state EXCEPT !.new_game = TRUE],
             events |-> send(event_writer, self)]
      [] self.tag = "SetBoolean" ->
            [state |-> [state EXCEPT !.boolean = xor_assign(@, TRUE)],
             events |-> send(event_writer, self)]
      [] self.tag = "SetNum" ->
            [state |-> [state EXCEPT !.num = self.n],
             events |-> send(event_writer, self)]

handle(self, state, event_writer) ==
    CASE self.tag \in {"Pause", "Resume"} ->
            [state |-> state, events |-> send(event_writer, self)]
      [] self.tag = "Quit" ->
            [state |-> state, events |-> send(event_writer, self)]
      [] self.tag = "NewGame" ->
            [state |-> [state EXCEPT !.new_game = TRUE],
             events |-> send(event_writer, self)]
      [] self.tag = "SetBoolean" ->
            [state |-> [state EXCEPT !.boolean = xor_assign(@, TRUE)],
             events |-> event_writer]
      [] self.tag = "SetNum" ->
            [state |-> [state EXCEPT !.num = self.n], events |-> event_writer]

----------------------------------------------------------------------------
\* Screens::resolve

MenuItem_headline(text) ==
    [kind |-> "headline", text |-> text, action |-> NoAction,
     screen |-> "", checked |-> FALSE]
MenuItem_label(text) ==
    [kind |-> "label", text |-> text, action |-> NoAction,
     screen |-> "", checked |-> FALSE]
MenuItem_action(text, a) ==
    [kind |-> "action", text |-> text, action |-> a,
     screen |-> "", checked |-> FALSE]
MenuItem_screen(text, s) ==
    [kind |-> "screen", text |-> text, action |-> NoAction,
     screen |-> s, checked |-> FALSE]
checked(item, b) == [item EXCEPT !.checked = b]

\* format!("{n}")
NumText(n) == <<"0", "1", "2", "3", "4", "5", "6", "7", "8", "9">>[n + 1]

num_actions_unchecked(state, n) == MenuItem_action(NumText(n), SetNum(n))
num_actions(state, n) ==
    checked(MenuItem_action(NumText(n), SetNum(n)), state.num = n)

\* The entry compiled only when target_arch is not wasm32.
QuitItem == IF wasm THEN <<>> ELSE <<MenuItem_action("Quit", Quit)>>

resolve_resume_on_game_over(self, state) ==
    [id |-> self,
     entries |->
        CASE self = "Pause" ->
                <<MenuItem_headline("Paused"),
                  MenuItem_action("Resume", Resume),
                  MenuItem_screen("New Game", "NewGame")>> \o QuitItem
          [] self = "Game" -> <<MenuItem_action("Pause", Pause)>>
          [] self = "GameOver" ->
                <<MenuItem_headline("Game Over"),
                  MenuItem_action("Resume", Resume),
                  MenuItem_screen("New Game", "NewGame")>> \o QuitItem
          [] self = "NewGame" ->
                <<MenuItem_headline("YourGame"),
                  MenuItem_action("Start a New Game", NewGame),
                  MenuItem_label("Configuration"),
                  checked(MenuItem_action("Boolean", SetBoolean), state.boolean),
                  MenuItem_screen("Num", "Num")>>
          [] self = "Num" ->
                <<MenuItem_headline("Num")>>
                    \o [i \in 1..Len(Range(3, 6)) |->
                            num_actions(state, Range(3, 6)[i])]]

resolve(self, state) ==
    [id |-> self,
     entries |->
        CASE self = "Pause" ->
                <<MenuItem_headline("Paused"),
                  MenuItem_action("Resume", Resume),
                  MenuItem_screen("New Game", "NewGame")>> \o QuitItem
          [] self = "Game" -> <<MenuItem_action("Pause", Pause)>>
          [] self = "GameOver" ->
                <<MenuItem_headline("Game Over"),
                  MenuItem_screen("New Game", "NewGame")>> \o QuitItem
          [] self = "NewGame" ->
                <<MenuItem_headline("YourGame"),
                  MenuItem_action("Start a New Game", NewGame),
                  MenuItem_label("Configuration"),
                  checked(MenuItem_action("Boolean", SetBoolean), state.boolean),
                  MenuItem_screen("Num", "Num")>>
          [] self = "Num" ->
                <<MenuItem_headline("Num")>>
                    \o [i \in 1..Len(Range(3, 6)) |->
                            num_actions(state, Range(3, 6)[i])]]

----------------------------------------------------------------------------
\* MenuState::new: the configuration is copied by value; the navigation
\* stack starts with the given screen.
MenuState_new_default(state, screen, position_type) ==
    [state |-> GameCfg_default, stack |-> <<screen>>,
     position_type |-> position_type]

MenuState_new(state, screen, position_type) ==
    [state |-> state, stack |-> <<screen>>, position_type |-> position_type]

ActiveScreen(ms) == ms.stack[Len(ms.stack)]

\* The title the host gave the window before the menu ever set one.
InitialTitle == "host"

----------------------------------------------------------------------------
\* fn menu: the (title, screen, position_type) chosen from the host state
\* and the shared configuration.

menu_select_ignores_outcome(cfgv, st) ==
    IF st = "Game"
    THEN [title |-> "YourGame", screen |-> "Game", position_type |-> "Absolute"]
    ELSE [title |-> "YourGame - Paused", screen |-> "Pause",
          position_type |-> "Relative"]

menu_select_never_game(cfgv, st) ==
    IF cfgv.outcome # None
    THEN [title |-> "YourGame - GameOver", screen |-> "GameOver",
          position_type |-> "Relative"]
    ELSE [title |-> "YourGame - Paused", screen |-> "Pause",
          position_type |-> "Relative"]

menu_select(cfgv, st) ==
    IF st = "Game"
    THEN [title |-> "YourGame", screen |-> "Game", position_type |-> "Absolute"]
    ELSE IF cfgv.outcome # None
    THEN [title |-> "YourGame - GameOver", screen |-> "GameOver",
          position_type |-> "Relative"]
    ELSE [title |-> "YourGame - Paused", screen |-> "Pause",
          position_type |-> "Relative"]

\* One run of the system `menu`; its command (insert_resource(MenuState))
\* is applied when the OnEnter/OnExit schedule that ran it ends.  Res<GameCfg>
\* of an absent resource panics.
menu(next_phase) ==
    IF cfg = None
    THEN /\ phase' = "Panicked"
         /\ UNCHANGED <<title, menuState>>
    ELSE LET sel == menu_select(cfg[1], gameState)
         IN /\ title' = sel.title
            /\ menuState' =
                   Some(MenuState_new(cfg[1], sel.screen, sel.position_type))
            /\ phase' = next_phase

----------------------------------------------------------------------------
\* fn handle_events

IsNextState(c) == c.resource = "NextState"
IsGameCfg(c) == c.resource = "GameCfg"

insert_GameCfg(v) == [resource |-> "GameCfg", value |-> v]
insert_NextState(s) == [resource |-> "NextState", value |-> Some(s)]

\* The commands one event makes handle_events queue.
event_commands_resume_to_menu(event) ==
    CASE event.tag \in {"Resume", "Pause"} -> <<insert_NextState("Menu")>>
      [] event.tag = "NewGame" -> <<insert_NextState("Game")>>
      [] OTHER -> <<>>

event_commands(event) ==
    CASE event.tag \in {"Resume", "NewGame"} -> <<insert_NextState("Game")>>
      [] event.tag = "Pause" -> <<insert_NextState("Menu")>>
      [] OTHER -> <<>>

\* The AppExit events one event makes handle_events send.
event_exits_none(event) == 0
event_exits(event) == IF event.tag = "Quit" THEN 1 ELSE 0

RECURSIVE event_loop_reversed(_)
event_loop_reversed(evs) ==
    IF evs = <<>>
    THEN [cmds |-> <<>>, exits |-> 0]
    ELSE LET rest == event_loop_reversed(Tail(evs))
         IN [cmds |-> rest.cmds \o event_commands(Head(evs)),
             exits |-> event_exits(Head(evs)) + rest.exits]

RECURSIVE event_loop(_)
event_loop(evs) ==
    IF evs = <<>>
    THEN [cmds |-> <<>>, exits |-> 0]
    ELSE LET rest == event_loop(Tail(evs))
         IN [cmds |-> event_commands(Head(evs)) \o rest.cmds,
             exits |-> event_exits(Head(evs)) + rest.exits]

copy_back_always(ms, evs) ==
    IF ms # None THEN <<insert_GameCfg(ms[1].state)>> ELSE <<>>

copy_back(ms, evs) ==
    IF ms # None /\ evs # <<>> THEN <<insert_GameCfg(ms[1].state)>> ELSE <<>>

handle_events ==
    /\ phase = "Update"
    /\ ~handled
    /\ LET loop == event_loop(events)
       IN /\ commands' = commands \o copy_back(menuState, events) \o loop.cmds
          /\ appExit' = appExit + loop.exits
    /\ events' = <<>>
    /\ handled' = TRUE
    /\ UNCHANGED <<wasm, gameState, nextState, cfg, menuState, title, phase,
                   exited, acts, enteredGame, hostOutcome, pauseMark>>
    /\ UNCHANGED pureVars

\* Applying the queued commands in order: a later insert of the same
\* resource overwrites an earlier one.
RECURSIVE apply_commands(_, _)
apply_commands(cmds, world) ==
    IF cmds = <<>>
    THEN world
    ELSE LET c == Head(cmds)
         IN apply_commands(Tail(cmds),
                IF IsGameCfg(c)
                THEN [world EXCEPT !.cfg = Some(c.value)]
                ELSE [world EXCEPT !.next = c.value])

\* End of Update: the command buffers are applied and the frame ends; the
\* runner leaves its loop once an AppExit event was sent.
apply_system_buffers ==
    /\ phase = "Update"
    /\ handled
    /\ LET world == apply_commands(commands, [cfg |-> cfg, next |-> nextState])
       IN /\ cfg' = world.cfg
          /\ nextState' = world.next
    /\ commands' = <<>>
    /\ handled' = FALSE
    /\ acts' = 0
    /\ phase' = IF appExit > 0 THEN "Exited" ELSE "StateTransitions"
    /\ UNCHANGED <<wasm, gameState, menuState, events, appExit, title, exited,
                   enteredGame, hostOutcome, pauseMark>>
    /\ UNCHANGED pureVars

----------------------------------------------------------------------------
\* QuickMenuPlugin: the input system applies the user's selection to the
\* active screen of the MenuState resource.

Entries(ms) == resolve(ActiveScreen(ms), ms.state).entries

\* boolean and num of the snapshot and of the shared resource.
Mark(ms, c) ==
    [sb |-> ms.state.boolean, sn |-> ms.state.num,
     cb |-> IF c = None THEN ms.state.boolean ELSE c[1].boolean,
     cn |-> IF c = None THEN ms.state.num ELSE c[1].num]

\* Selecting an entry bound to an action calls Actions::handle on the
\* snapshot of the menu.
SelectAction(i) ==
    /\ phase = "Update"
    /\ acts < MaxActsPerFrame
    /\ menuState # None
    /\ i \in 1..Len(Entries(menuState[1]))
    /\ Entries(menuState[1])[i].kind = "action"
    /\ LET ms == menuState[1]
           a == Entries(ms)[i].action
           r == handle(a, ms.state, events)
       IN /\ menuState' = Some([ms EXCEPT !.state = r.state])
          /\ events' = r.events
          /\ pauseMark' = IF a = Pause /\ pauseMark = None
                          THEN Some(Mark(ms, cfg))
                          ELSE pauseMark
    /\ acts' = acts + 1
    /\ UNCHANGED <<wasm, gameState, nextState, cfg, commands, appExit, title,
                   phase, exited, handled, enteredGame, hostOutcome>>
    /\ UNCHANGED pureVars

\* Selecting an entry bound to a screen pushes it on the navigation stack.
SelectScreen(i) ==
    /\ phase = "Update"
    /\ acts < MaxActsPerFrame
    /\ menuState # None
    /\ i \in 1..Len(Entries(menuState[1]))
    /\ Entries(menuState[1])[i].kind = "screen"
    /\ LET ms == menuState[1]
       IN menuState' =
              Some([ms EXCEPT !.stack = Append(@, Entries(ms)[i].screen)])
    /\ acts' = acts + 1
    /\ UNCHANGED <<wasm, gameState, nextState, cfg, events, commands, appExit,
                   title, phase, exited, handled, enteredGame, hostOutcome,
                   pauseMark>>
    /\ UNCHANGED pureVars

\* Going back pops the navigation stack down to its root.
Back ==
    /\ phase = "Update"
    /\ acts < MaxActsPerFrame
    /\ menuState # None
    /\ Len(menuState[1].stack) > 1
    /\ LET ms == menuState[1]
       IN menuState' =
              Some([ms EXCEPT !.stack = SubSeq(@, 1, Len(@) - 1)])
    /\ acts' = acts + 1
    /\ UNCHANGED <<wasm, gameState, nextState, cfg, events, commands, appExit,
                   title, phase, exited, handled, enteredGame, hostOutcome,
                   pauseMark>>
    /\ UNCHANGED pureVars

----------------------------------------------------------------------------
\* Host: apply_state_transition with the schedules MenuPlugin::build
\* registers (`menu` in OnEnter(GameState::Game) and OnExit(GameState::Game)).

apply_state_transition ==
    /\ phase = "StateTransitions"
    /\ IF nextState # None
       THEN /\ gameState' = nextState[1]
            /\ exited' = gameState
            /\ nextState' = None
            /\ enteredGame' = (enteredGame \/ nextState[1] = "Game")
            /\ phase' = "OnExit"
       ELSE /\ phase' = "Update"
            /\ UNCHANGED <<gameState, exited, nextState, enteredGame>>
    /\ UNCHANGED <<wasm, cfg, menuState, events, commands, appExit, title,
                   handled, acts, hostOutcome, pauseMark>>
    /\ UNCHANGED pureVars

\* The OnExit(exited) schedule: `menu` runs when Game was exited.
OnExit ==
    /\ phase = "OnExit"
    /\ IF exited = "Game"
       THEN /\ menu("OnEnter")
            /\ pauseMark' = None
       ELSE /\ phase' = "OnEnter"
            /\ UNCHANGED <<title, menuState, pauseMark>>
    /\ UNCHANGED <<wasm, gameState, nextState, cfg, events, commands, appExit,
                   exited, handled, acts, enteredGame, hostOutcome>>
    /\ UNCHANGED pureVars

\* The OnEnter(entered) schedule: `menu` runs when Game is entered.
OnEnter ==
    /\ phase = "OnEnter"
    /\ IF gameState = "Game"
       THEN menu("Update")
       ELSE /\ phase' = "Update"
            /\ UNCHANGED <<title, menuState>>
    /\ UNCHANGED <<wasm, gameState, nextState, cfg, events, commands, appExit,
                   exited, handled, acts, enteredGame, hostOutcome, pauseMark>>
    /\ UNCHANGED pureVars

\* The game, while it is played, records its outcome in the shared
\* configuration (or clears it for a new game).
HostWriteOutcome(o) ==
    /\ phase \in {"StateTransitions", "Update"}
    /\ gameState = "Game"
    /\ cfg # None
    /\ cfg' = Some([cfg[1] EXCEPT !.outcome = o])
    /\ hostOutcome' = o
    /\ UNCHANGED <<wasm, gameState, nextState, menuState, events, commands,
                   appExit, title, phase, exited, handled, acts, enteredGame,
                   pauseMark>>
    /\ UNCHANGED pureVars

\* The game, while it is played, takes the request for a new game.
HostClearNewGame ==
    /\ phase \in {"StateTransitions", "Update"}
    /\ gameState = "Game"
    /\ cfg # None
    /\ cfg[1].new_game
    /\ cfg' = Some([cfg[1] EXCEPT !.new_game = FALSE])
    /\ UNCHANGED <<wasm, gameState, nextState, menuState, events, commands,
                   appExit, title, phase, exited, handled, acts, enteredGame,
                   hostOutcome, pauseMark>>
    /\ UNCHANGED pureVars

----------------------------------------------------------------------------
\* MenuPlugin::build and the program as a whole.

\* The entries of the active screen the user can point at.
Selectable ==
    IF menuState = None THEN {} ELSE 1..Len(Entries(menuState[1]))

Init ==
    /\ wasm \in BOOLEAN
    /\ gameState = "Menu"
    /\ nextState = None
    /\ cfg \in {None, Some(GameCfg_default)}
    /\ menuState = Some(MenuState_new(GameCfg_default, "NewGame", "Relative"))
    /\ events = <<>>
    /\ commands = <<>>
    /\ appExit = 0
    /\ title = InitialTitle
    /\ phase = "StateTransitions"
    /\ exited = "Menu"
    /\ handled = FALSE
    /\ acts = 0
    /\ enteredGame = FALSE
    /\ hostOutcome = None
    /\ pauseMark = None
    /\ arg = GameCfg_default
    /\ res = GameCfg_default
    /\ applied = <<>>
    /\ resolved = None

Next ==
    \/ \E i \in Selectable : SelectAction(i)
    \/ \E i \in Selectable : SelectScreen(i)
    \/ Back
    \/ handle_events
    \/ apply_system_buffers
    \/ apply_state_transition
    \/ OnExit
    \/ OnEnter
    \/ \E o \in {None, Some(TRUE), Some(FALSE)} : HostWriteOutcome(o)
    \/ HostClearNewGame

Spec == Init /\ [][Next]_vars

----------------------------------------------------------------------------
\* Function-level specification: Actions::handle and Screens::resolve
\* applied to every configuration.

PureInit ==
    /\ wasm \in BOOLEAN
    /\ gameState = "Menu"
    /\ nextState = None
    /\ cfg = None
    /\ menuState = None
    /\ events = <<>>
    /\ commands = <<>>
    /\ appExit = 0
    /\ title = InitialTitle
    /\ phase = "Pure"
    /\ exited = "Menu"
    /\ handled = FALSE
    /\ acts = 0
    /\ enteredGame = FALSE
    /\ hostOutcome = None
    /\ pauseMark = None
    /\ arg \in GameCfg
    /\ res = arg
    /\ applied = <<>>
    /\ resolved = None

PureHandle(a) ==
    /\ Len(applied) < MaxApplied
    /\ LET r == handle(a, res, events)
       IN /\ res' = r.state
          /\ events' = r.events
    /\ applied' = Append(applied, a)
    /\ UNCHANGED <<wasm, gameState, nextState, cfg, menuState, commands,
                   appExit, title, phase, exited, handled, acts, enteredGame,
                   hostOutcome, pauseMark, arg, resolved>>

PureResolve(s) ==
    /\ resolved' = Some([state |-> res, menu |-> resolve(s, res)])
    /\ UNCHANGED <<wasm, gameState, nextState, cfg, menuState, events,
                   commands, appExit, title, phase, exited, handled, acts,
                   enteredGame, hostOutcome, pauseMark, arg, res, applied>>

PureNext ==
    \/ \E a \in Actions : PureHandle(a)
    \/ \E s \in Screens : PureResolve(s)

PureSpec == PureInit /\ [][PureNext]_vars

----------------------------------------------------------------------------
\* Properties.

IsTransitionEvent(e) == e.tag \in {"Resume", "NewGame", "Pause"}

\* The step is a run of handle_events.
HandleEventsStep == ~handled /\ handled'

\* The step is a call of Actions::handle that sent the event e.
HandledAndSent(e) ==
    /\ menuState # None
    /\ menuState' # None
    /\ events' = Append(events, e)

\* The state is not in the middle of apply_state_transition.
Settled == phase \notin {"OnExit", "OnEnter"}

\* C1: every Resume and every NewGame event handle_events consumes makes it
\* queue a request for GameState::Game (the k-th transition event of the pass
\* yields its k-th NextState command); handling Actions::NewGame sets
\* new_game in the snapshot it is applied to and handling Actions::Resume
\* leaves new_game as it was.
C1_ResumeNewGameRequestGame ==
    [][/\ HandleEventsStep =>
            LET E == SelectSeq(events, IsTransitionEvent)
                R == SelectSeq(commands', IsNextState)
            IN /\ Len(R) = Len(E)
               /\ \A i \in 1..Len(E) :
                     E[i].tag \in {"Resume", "NewGame"}
                        => R[i].value = Some("Game")
       /\ HandledAndSent(NewGame) => menuState'[1].state.new_game = TRUE
       /\ HandledAndSent(Resume) =>
            menuState'[1].state.new_game = menuState[1].state.new_game
      ]_vars

\* A pass of handle_events has consumed a NewGame event in the Menu state
\* and queued the request for Game; the snapshot has new_game set.
C1_Witness ==
    /\ handled
    /\ gameState = "Menu"
    /\ \E i \in 1..Len(commands) :
          IsNextState(commands[i]) /\ commands[i].value = Some("Game")
    /\ menuState[1].state.new_game

\* C2: every Pause event handle_events consumes makes it queue a request
\* for GameState::Menu, and from the handling of Actions::Pause until `menu`
\* has rebuilt the menu on exiting Game, boolean and num keep their values
\* in the snapshot and in the shared configuration.
C2_PauseRequestsMenuKeepsSettings ==
    [][/\ HandleEventsStep =>
            LET E == SelectSeq(events, IsTransitionEvent)
                R == SelectSeq(commands', IsNextState)
            IN /\ Len(R) = Len(E)
               /\ \A i \in 1..Len(E) :
                     E[i].tag = "Pause" => R[i].value = Some("Menu")
       /\ (pauseMark # None /\ pauseMark' # None) =>
            /\ pauseMark' = pauseMark
            /\ Mark(menuState'[1], cfg') = pauseMark'[1]
      ]_vars

\* Pause was handled with boolean switched off; its request has been
\* applied and the copy-back has written the shared configuration.
C2_Witness ==
    /\ pauseMark # None
    /\ pauseMark[1].sb = FALSE
    /\ nextState = Some("Menu")
    /\ gameState = "Game"

\* C3: a run of `menu` on entering Game sets the title "YourGame"; a run of
\* `menu` on exiting Game sets "YourGame - GameOver" when the shared
\* configuration's outcome is Some(_) and "YourGame - Paused" when it is None.
C3_TitleOnEnterAndExit ==
    [][/\ (phase = "OnEnter" /\ gameState = "Game" /\ phase' = "Update")
            => title' = "YourGame"
       /\ (phase = "OnExit" /\ exited = "Game" /\ phase' = "OnEnter")
            => title' = IF cfg[1].outcome # None
                        THEN "YourGame - GameOver"
                        ELSE "YourGame - Paused"
      ]_vars

C5_RootScreenFollowsOutcome ==
    (Settled /\ gameState = "Menu" /\ enteredGame) =>
        menuState[1].stack[1] =
            IF hostOutcome = None THEN "Pause" ELSE "GameOver"

\* C6: whenever the host state is not Menu, no MenuState resource exists.
C6_NoMenuOutsideMenu ==
    gameState # "Menu" => menuState = None

\* C7: the Num screen resolves to its headline followed by exactly three
\* action entries SetNum(3), SetNum(4), SetNum(5) in this order, of which
\* exactly the one for the configuration's num is checked.
C7_NumScreen ==
    (resolved # None /\ resolved[1].menu.id = "Num") =>
        LET e == resolved[1].menu.entries
            st == resolved[1].state
        IN /\ Len(e) = 4
           /\ e[1].kind = "headline"
           /\ \A i \in 1..3 :
                 /\ e[i + 1].kind = "action"
                 /\ e[i + 1].action = SetNum(i + 2)
                 /\ e[i + 1].checked = (st.num = i + 2)
           /\ Cardinality({i \in 2..4 : e[i].checked}) = 1

\* The Num screen was resolved for a configuration with num = 5 that an
\* action produced, and its last entry is the checked one.
C7_Witness ==
    /\ resolved # None
    /\ resolved[1].menu.id = "Num"
    /\ applied # <<>>
    /\ resolved[1].state.num = 5
    /\ resolved[1].menu.entries[4].checked

\* C8: num is 3, 4 or 5 in the snapshot of the menu and in the shared
\* configuration, in every reachable state.
C8_NumInRange ==
    /\ menuState # None => menuState[1].state.num \in {3, 4, 5}
    /\ cfg # None => cfg[1].num \in {3, 4, 5}

\* A num chosen in the menu has reached the shared configuration and the
\* snapshot rebuilt on entering Game.
C8_Witness ==
    /\ gameState = "Game"
    /\ Settled
    /\ cfg # None
    /\ cfg[1].num = 5
    /\ menuState[1].state.num = 5

\* C9: handling SetBoolean once flips boolean and handling it twice in a row
\* restores the original value.
C9_SetBooleanTwice ==
    /\ applied = <<SetBoolean>> => res.boolean # arg.boolean
    /\ applied = <<SetBoolean, SetBoolean>> => res.boolean = arg.boolean

\* SetBoolean was handled twice on a configuration whose boolean was off.
C9_Witness ==
    /\ applied = <<SetBoolean, SetBoolean>>
    /\ arg.boolean = FALSE
    /\ res.boolean = FALSE

\* C10: after handling SetNum(n), n in {3,4,5}, num is exactly n whatever
\* it was before.
C10_SetNumExact ==
    (applied # <<>> /\ applied[Len(applied)].tag = "SetNum") =>
        /\ applied[Len(applied)].n \in {3, 4, 5}
        /\ res.num = applied[Len(applied)].n

\* SetNum(5) was handled on a configuration whose num was 3.
C10_Witness ==
    /\ applied = <<SetNum(5)>>
    /\ arg.num = 3
    /\ res.num = 5

IsQuit(e) == e.tag = "Quit"

\* Some screen, resolved for the configuration, has an entry bound to Quit.
QuitOffered(state) ==
    \E s \in Screens :
        \E i \in 1..Len(resolve(s, state).entries) :
            resolve(s, state).entries[i].action = Quit

\* C11: on a build that is not wasm32 a pass of handle_events sends exactly
\* one AppExit per Quit event it consumes, and a handled Quit sends exactly
\* one event; on wasm32 no screen offers Quit, no Quit event is pending and
\* no AppExit is ever sent.
C11_QuitExitsOncePerEvent ==
    [][/\ HandleEventsStep =>
            appExit' = appExit + Len(SelectSeq(events, IsQuit))
       /\ (~HandleEventsStep) => appExit' = appExit
       /\ HandledAndSent(Quit) =>
            Len(SelectSeq(events', IsQuit)) = Len(SelectSeq(events, IsQuit)) + 1
       /\ wasm' =>
            /\ appExit' = 0
            /\ SelectSeq(events', IsQuit) = <<>>
            /\ menuState' # None => ~QuitOffered(menuState'[1].state)
      ]_vars

\* A pass of handle_events consumed a Quit event selected on the GameOver
\* screen and sent its AppExit.
C11_Witness ==
    /\ ~wasm
    /\ handled
    /\ appExit = 1
    /\ events = <<>>
    /\ menuState[1].stack = <<"GameOver">>

\* The step is the flush that ends Update.
FlushStep == phase = "Update" /\ phase' # "Update"

\* C12: a pass of handle_events that finds an event pending and a MenuState
\* queues the insert of the whole snapshot (all four fields) and the flush
\* of that frame makes the shared configuration equal to it; a pass that
\* finds no event queues nothing and its flush leaves the shared
\* configuration unchanged.
C12_CopyBackIffEvents ==
    [][/\ (HandleEventsStep /\ events # <<>> /\ menuState # None) =>
            /\ commands' # <<>>
            /\ commands'[1] = insert_GameCfg(menuState[1].state)
            /\ \A i \in 2..Len(commands') : ~IsGameCfg(commands'[i])
       /\ (HandleEventsStep /\ events = <<>>) => commands' = <<>>
       /\ (FlushStep /\ commands # <<>>) => cfg' = Some(commands[1].value)
       /\ (FlushStep /\ commands = <<>>) => cfg' = cfg
      ]_vars

\* A pass has queued the copy of a snapshot whose outcome differs from the
\* one in the shared configuration it is about to overwrite.
C12_Witness ==
    /\ handled
    /\ commands # <<>>
    /\ IsGameCfg(commands[1])
    /\ cfg # None
    /\ commands[1].value.outcome # cfg[1].outcome

\* C13: every transition a pass of handle_events requests leads from Menu
\* to Game or from Game to Menu: no queued NextState names the state the
\* host is in.
C13_OnlyMenuGameAndGameMenu ==
    [][HandleEventsStep =>
            \A i \in 1..Len(commands') :
                IsNextState(commands'[i])
                    => commands'[i].value # Some(gameState)
      ]_vars

\* The menu is as MenuPlugin::build made it: the NewGame screen at the root
\* and the default configuration in the snapshot.
AtStart ==
    /\ gameState = "Menu"
    /\ menuState # None
    /\ menuState[1].stack[1] = "NewGame"
    /\ menuState[1].state =
          [boolean |-> TRUE, new_game |-> FALSE, outcome |-> None, num |-> 3]

\* The step is a call of Actions::handle by the input system.
ActionHandledStep ==
    /\ acts' = acts + 1
    /\ menuState'[1].stack = menuState[1].stack

\* C14: after MenuPlugin::build the active screen is NewGame and the
\* snapshot holds boolean = true, new_game = false, outcome = None, num = 3,
\* and this stays so (NewGame at the root, the defaults in the snapshot)
\* until an action is handled.
C14_StartsOnNewGameWithDefaults ==
    /\ (AtStart /\ menuState[1].stack = <<"NewGame">>)
    /\ [][(AtStart /\ ~ActionHandledStep) => AtStart']_vars

\* Frames have passed at the start (a pass of handle_events ran, the user
\* looked at the Num screen) without any action handled.
C14_Witness ==
    /\ AtStart
    /\ ~enteredGame
    /\ handled
    /\ acts = 1
    /\ events = <<>>
    /\ menuState[1].stack = <<"NewGame", "Num">>

\* C15: a call of Actions::handle that sends no event is SetBoolean or
\* SetNum: it either flips boolean and leaves new_game, outcome and num, or
\* leaves boolean, new_game and outcome and sets num to a value of the Num
\* screen; it queues no command, requests no transition, sends no AppExit
\* and leaves the shared configuration.  A call that sends an event leaves
\* boolean and num, and no SetBoolean or SetNum event is ever pending.
C15_SettersChangeOneField ==
    [][ActionHandledStep =>
        LET old == menuState[1].state
            new == menuState'[1].state
        IN /\ events' = events =>
                /\ \/ new = [old EXCEPT !.boolean = ~old.boolean]
                   \/ \E x \in {3, 4, 5} : new = [old EXCEPT !.num = x]
                /\ commands' = commands
                /\ nextState' = nextState
                /\ appExit' = appExit
                /\ cfg' = cfg
           /\ events' # events =>
                /\ new.boolean = old.boolean
                /\ new.num = old.num
           /\ \A i \in 1..Len(events') :
                events'[i].tag \notin {"SetBoolean", "SetNum"}
      ]_vars

\* SetBoolean and SetNum(5) were handled on the NewGame and Num screens after
\* a game: the snapshot differs from the shared configuration in exactly
\* these fields and nothing is pending.
C15_Witness ==
    /\ enteredGame
    /\ gameState = "Menu"
    /\ menuState[1].state.boolean = FALSE
    /\ menuState[1].state.num = 5
    /\ cfg # None
    /\ cfg[1].boolean = TRUE
    /\ cfg[1].num = 3
    /\ events = <<>>
    /\ commands = <<>>
    /\ nextState = None

\* The step is a run of `menu` in OnExit(Game) or OnEnter(Game).
RebuildStep ==
    \/ phase = "OnExit" /\ exited = "Game" /\ phase' = "OnEnter"
    \/ phase = "OnEnter" /\ gameState = "Game" /\ phase' = "Update"

\* C16: every rebuild of the menu on entering or exiting Game produces a
\* snapshot with the boolean and num of the snapshot it replaces (the host
\* writes neither field).
C16_RebuildKeepsSettings ==
    [][RebuildStep =>
        /\ menuState'[1].state.boolean = menuState[1].state.boolean
        /\ menuState'[1].state.num = menuState[1].state.num
      ]_vars

\* The state the event asks for.
Target(e) == IF e.tag = "Pause" THEN "Menu" ELSE "Game"

\* C17: a pass of handle_events queues the requests of the Resume, NewGame
\* and Pause events it consumes in the order of their emission, and the
\* flush of that frame leaves the request of the last of them in NextState
\* (NextState is untouched when there was none).
C17_LastRequestWins ==
    [][/\ HandleEventsStep =>
            LET E == SelectSeq(events, IsTransitionEvent)
                R == SelectSeq(commands', IsNextState)
            IN /\ Len(R) = Len(E)
               /\ \A i \in 1..Len(E) : R[i].value = Some(Target(E[i]))
       /\ FlushStep =>
            LET R == SelectSeq(commands, IsNextState)
            IN nextState' = IF R = <<>> THEN nextState ELSE R[Len(R)].value
      ]_vars

\* One pass consumed a NewGame event followed by a Pause event: both
\* requests are queued and they differ.
C17_Witness ==
    /\ handled
    /\ Len(SelectSeq(commands, IsNextState)) = 2
    /\ SelectSeq(commands, IsNextState)[1].value = Some("Game")
    /\ SelectSeq(commands, IsNextState)[2].value = Some("Menu")

\* C18 as stated: once new_game is true in the snapshot of the menu it is
\* true in every later snapshot.
C18_NewGameStaysTrue ==
    [][(menuState # None /\ menuState[1].state.new_game)
            => menuState'[1].state.new_game
      ]_vars

\* C18 as amended: handling NewGame sets new_game in the snapshot; the
\* snapshot loses a true new_game only in a rebuild by `menu` from a shared
\* configuration whose new_game is false, and the shared configuration
\* loses a true new_game only by a write of the host, never by the flush
\* of a copy-back.
C18_OnlyHostResetsNewGame ==
    [][/\ HandledAndSent(NewGame) => menuState'[1].state.new_game
       /\ (menuState # None /\ menuState[1].state.new_game
                /\ ~menuState'[1].state.new_game)
            => (RebuildStep /\ cfg # None /\ ~cfg[1].new_game)
       /\ (cfg # None /\ cfg[1].new_game /\ ~cfg'[1].new_game)
            => (~FlushStep /\ ~RebuildStep /\ gameState = "Game"
                    /\ menuState' = menuState /\ events' = events)
       /\ (FlushStep /\ commands # <<>> /\ commands[1].value.new_game)
            => cfg'[1].new_game
      ]_vars

\* After a new game the host cleared new_game following the last copy-back
\* and the menu rebuilt on exiting Game took the cleared flag.
C18_Witness ==
    /\ enteredGame
    /\ gameState = "Menu"
    /\ Settled
    /\ menuState[1].stack[1] = "Pause"
    /\ ~menuState[1].state.new_game
    /\ ~cfg[1].new_game

\* The screen, resolved for the configuration, has an entry bound to Resume.
ResumeOffered(s, state) ==
    \E i \in 1..Len(resolve(s, state).entries) :
        resolve(s, state).entries[i].action = Resume

\* C19: Resume is handled only on the Pause screen and only after Game was
\* entered; the Pause screen becomes the root only in a run of `menu` on
\* exiting Game; no Resume event is pending before Game was entered; and
\* the GameOver, NewGame, Num and Game screens have no Resume entry.
C19_ResumeOnlyFromPause ==
    [][/\ HandledAndSent(Resume) =>
            /\ ActiveScreen(menuState[1]) = "Pause"
            /\ enteredGame
       /\ (menuState'[1].stack[1] = "Pause" /\ menuState[1].stack[1] # "Pause")
            => (phase = "OnExit" /\ exited = "Game")
       /\ (\E i \in 1..Len(events') : events'[i] = Resume) => enteredGame'
       /\ \A s \in {"GameOver", "NewGame", "Num", "Game"} :
            ~ResumeOffered(s, menuState'[1].state)
       /\ ResumeOffered("Pause", menuState'[1].state)
      ]_vars

\* Resume was selected on the Pause screen built on exiting Game and its
\* event is pending.
C19_Witness ==
    /\ enteredGame
    /\ gameState = "Menu"
    /\ menuState[1].stack = <<"Pause">>
    /\ events = <<Resume>>

====
